---- MODULE Spec2Model ----
(***************************************************************************)
(* Model of configurator/src/MainWindow.cpp: the configurator main window  *)
(* with its configuration snapshot (ItalcCore::config()), the dirty flag   *)
(* m_configChanged, the Apply/Reset button box, the settings load/save     *)
(* actions, the bug report archive and the close request.                  *)
(***************************************************************************)
EXTENDS Integers, Sequences, FiniteSets, TLC

(* ------------------------------------------------------------------ *)
(* Bounds of the model                                                 *)
(* ------------------------------------------------------------------ *)

\* number of distinct values a configuration key can hold
NumValues == 2

\* configuration keys; "a" has a built-in default, "b" has none
Keys == {"a", "b"}

\* 0 stands for "key not present in the object's data"
NoValue == 0

Values == 1..NumValues

Configs == [Keys -> Values \cup {NoValue}]

(* ------------------------------------------------------------------ *)
(* QString as a sequence of characters                                 *)
(* ------------------------------------------------------------------ *)

dotJson == <<".", "j", "s", "o", "n">>

dotJSON == <<".", "J", "S", "O", "N">>

report == <<"r", "e", "p", "o", "r", "t">>

emptyString == <<>>

\* QString::isEmpty that never reports an empty name
isEmpty_never(str) == FALSE

\* QString::isEmpty()
isEmpty(str) == Len(str) = 0

\* what the file dialogs can return: cancelled, and names with and
\* without the extension in either letter case
FileNames ==
    { emptyString, report, report \o dotJson, report \o dotJSON }

\* what the open dialog can return: cancelled, or an existing file
OpenFileNames == { emptyString, report \o dotJson }

\* Qt::CaseInsensitive comparison folds the letters
toLower(c) ==
    CASE c = "J" -> "j"
      [] c = "S" -> "s"
      [] c = "O" -> "o"
      [] c = "N" -> "n"
      [] c = "I" -> "i"
      [] c = "A" -> "a"
      [] OTHER -> c

\* QString::endsWith( s, cs )
endsWith(str, s, caseSensitive) ==
    /\ Len(str) >= Len(s)
    /\ \A i \in 1..Len(s) :
          LET c == str[Len(str) - Len(s) + i]
          IN  IF caseSensitive THEN c = s[i] ELSE toLower(c) = toLower(s[i])

\* QString::startsWith( s, cs )
startsWith(str, s, caseSensitive) ==
    /\ Len(str) >= Len(s)
    /\ \A i \in 1..Len(s) :
          IF caseSensitive THEN str[i] = s[i] ELSE toLower(str[i]) = toLower(s[i])

(* ------------------------------------------------------------------ *)
(* Configuration::Object                                               *)
(* ------------------------------------------------------------------ *)

\* ItalcConfiguration::defaultConfiguration(): defines key "a" only
defaultConfiguration == [k \in Keys |-> IF k = "a" THEN 1 ELSE NoValue]

\* Object::clear()
clear(c) == [k \in Keys |-> NoValue]

\* Object::operator+=( other ): the keys of other override
plusAssign(c, other) == [k \in Keys |-> IF other[k] # NoValue THEN other[k] ELSE c[k]]

\* Object::data().size()
size(c) == Cardinality({k \in Keys : c[k] # NoValue})

\* JsonStore::load( obj ): every key of the file is set in the live object
load(c, fileData) == [k \in Keys |-> IF fileData[k] # NoValue THEN fileData[k] ELSE c[k]]

\* ConfigurationPage::resetWidgets(): the widgets show the object's values
resetWidgets(c) == c

(* ------------------------------------------------------------------ *)
(* State                                                               *)
(* ------------------------------------------------------------------ *)

VARIABLES
    config,            \* ItalcCore::config(), the in-memory snapshot
    widgets,           \* the values shown by the configuration pages
    localBackend,      \* ItalcConfiguration( Store::LocalBackend )
    m_configChanged,   \* the dirty flag
    buttonBoxEnabled,  \* ui->buttonBox->isEnabled()
    windowOpen,        \* FALSE once a close event has been accepted
    lastOp,            \* the handler that ran last, with its inputs
    io                 \* what that handler did to the outside, in order

vars ==
    << config, widgets, localBackend, m_configChanged, buttonBoxEnabled,
       windowOpen, lastOp, io >>

\* the fields of the window the handlers assign
window ==
    [ config |-> config, widgets |-> widgets,
      m_configChanged |-> m_configChanged, buttonBoxEnabled |-> buttonBoxEnabled ]

setWindow(w) ==
    /\ config' = w.config
    /\ widgets' = w.widgets
    /\ m_configChanged' = w.m_configChanged
    /\ buttonBoxEnabled' = w.buttonBoxEnabled

(* ------------------------------------------------------------------ *)
(* The handlers as functions of the window                             *)
(* ------------------------------------------------------------------ *)

\* MainWindow::reset with the two merges in the wrong order
reset_defaultsLast(w, lb, onlyUI) ==
    LET c == IF onlyUI = FALSE
             THEN plusAssign(plusAssign(clear(w.config), lb), defaultConfiguration)
             ELSE w.config
    IN  [ config |-> c, widgets |-> resetWidgets(c),
          m_configChanged |-> FALSE, buttonBoxEnabled |-> FALSE ]

\* MainWindow::reset that merges whatever onlyUI says
reset_alwaysMerges(w, lb, onlyUI) ==
    LET c == plusAssign(plusAssign(clear(w.config), defaultConfiguration), lb)
    IN  [ config |-> c, widgets |-> resetWidgets(c),
          m_configChanged |-> FALSE, buttonBoxEnabled |-> FALSE ]

\* MainWindow::reset( bool onlyUI )
reset(w, lb, onlyUI) ==
    LET c == IF onlyUI = FALSE
             THEN plusAssign(plusAssign(clear(w.config), defaultConfiguration), lb)
             ELSE w.config
    IN  [ config |-> c, widgets |-> resetWidgets(c),
          m_configChanged |-> FALSE, buttonBoxEnabled |-> FALSE ]

\* MainWindow::configurationChanged that forgets the button box
configurationChanged_flagOnly(w) ==
    [w EXCEPT !.m_configChanged = TRUE]

\* MainWindow::configurationChanged()
configurationChanged(w) ==
    [w EXCEPT !.buttonBoxEnabled = TRUE, !.m_configChanged = TRUE]

\* MainWindow::apply that ignores the result of the commit
applyWindow_ignoresResult(w, ok) ==
    [w EXCEPT !.buttonBoxEnabled = FALSE, !.m_configChanged = FALSE]

\* MainWindow::apply(): the window after the commit returned ok
applyWindow(w, ok) ==
    IF ok
    THEN [w EXCEPT !.buttonBoxEnabled = FALSE, !.m_configChanged = FALSE]
    ELSE w

\* MainWindow::apply(): the commit, then the pages when it succeeded
applyIo(ok) ==
    << <<"applyConfiguration", ok>> >>
        \o (IF ok THEN << <<"page->applyConfiguration">> >> ELSE << >>)

\* ConfiguratorCore::applyConfiguration: a successful commit stores the
\* snapshot in the local backend
applyConfiguration(lb, c, ok) == IF ok THEN c ELSE lb

\* MainWindow::MainWindow(): reset(), then the incomplete-configuration check
MainWindow(c0, lb) ==
    LET w0 == [ config |-> c0, widgets |-> c0,
                m_configChanged |-> FALSE, buttonBoxEnabled |-> TRUE ]
        w1 == reset(w0, lb, FALSE)
    IN  IF size(lb) < size(w1.config) THEN configurationChanged(w1) ELSE w1

Init ==
    \E c0 \in Configs, lb \in Configs :
        /\ localBackend = lb
        /\ config = MainWindow(c0, lb).config
        /\ widgets = MainWindow(c0, lb).widgets
        /\ m_configChanged = MainWindow(c0, lb).m_configChanged
        /\ buttonBoxEnabled = MainWindow(c0, lb).buttonBoxEnabled
        /\ windowOpen = TRUE
        /\ lastOp = [op |-> "MainWindow"]
        /\ io = << >>

(* ------------------------------------------------------------------ *)
(* File names                                                          *)
(* ------------------------------------------------------------------ *)

\* the saved-settings extension check done case-sensitively
settingsFileName_caseSensitive(fileName) ==
    IF ~endsWith(fileName, dotJson, TRUE) THEN fileName \o dotJson ELSE fileName

\* saveSettingsToFile: fileName.endsWith( ".json", Qt::CaseInsensitive )
settingsFileName(fileName) ==
    IF ~endsWith(fileName, dotJson, FALSE) THEN fileName \o dotJson ELSE fileName

\* the bug report extension check done case-insensitively
bugReportFileName_caseInsensitive(outfile) ==
    IF ~endsWith(outfile, dotJson, FALSE) THEN outfile \o dotJson ELSE outfile

\* generateBugReportArchive: outfile.endsWith( ".json" )
bugReportFileName(outfile) ==
    IF ~endsWith(outfile, dotJson, TRUE) THEN outfile \o dotJson ELSE outfile

(* ------------------------------------------------------------------ *)
(* Actions: construction is Init, every other handler is one action    *)
(* ------------------------------------------------------------------ *)

\* a page widget connected to its property is edited: the property is set
\* and ItalcConfiguration::configurationChanged reaches the window
widgetEdited ==
    /\ windowOpen
    /\ \E k \in Keys, v \in Values :
          /\ setWindow(configurationChanged(
                 [window EXCEPT !.config[k] = v, !.widgets[k] = v]))
          /\ lastOp' = [op |-> "configurationChanged", key |-> k, value |-> v]
    /\ io' = << >>
    /\ UNCHANGED << localBackend, windowOpen >>

\* reset( onlyUI ) called as such
callReset ==
    /\ windowOpen
    /\ \E onlyUI \in BOOLEAN :
          /\ setWindow(reset(window, localBackend, onlyUI))
          /\ lastOp' = [op |-> "reset", onlyUI |-> onlyUI]
    /\ io' = << >>
    /\ UNCHANGED << localBackend, windowOpen >>

\* apply() called as such
callApply ==
    /\ windowOpen
    /\ \E ok \in BOOLEAN :
          /\ setWindow(applyWindow(window, ok))
          /\ localBackend' = applyConfiguration(localBackend, config, ok)
          /\ io' = applyIo(ok)
          /\ lastOp' = [op |-> "apply", ok |-> ok]
    /\ UNCHANGED windowOpen

\* MainWindow::resetOrApply( btn ): a click in the enabled button box
resetOrApply ==
    /\ windowOpen
    /\ buttonBoxEnabled
    /\ \E btn \in {"Apply", "Reset"} :
          IF btn = "Apply"
          THEN \E ok \in BOOLEAN :
               /\ setWindow(applyWindow(window, ok))
               /\ localBackend' = applyConfiguration(localBackend, config, ok)
               /\ io' = applyIo(ok)
               /\ lastOp' = [op |-> "apply", ok |-> ok]
          ELSE /\ setWindow(reset(window, localBackend, FALSE))
               /\ localBackend' = localBackend
               /\ io' = << >>
               /\ lastOp' = [op |-> "reset", onlyUI |-> FALSE]
    /\ UNCHANGED windowOpen

\* the window after loadSettingsFromFile got fileName from the dialog
loadWindow(w, lb, fileName, fileData) ==
    IF ~isEmpty(fileName)
    THEN configurationChanged(
             reset([w EXCEPT !.config = load(w.config, fileData)], lb, TRUE))
    ELSE w

\* MainWindow::loadSettingsFromFile()
loadSettingsFromFile ==
    /\ windowOpen
    /\ \E fileName \in OpenFileNames, fileData \in Configs :
          /\ fileName = emptyString => fileData = clear(fileData)
          /\ setWindow(loadWindow(window, localBackend, fileName, fileData))
          /\ io' = IF ~isEmpty(fileName) THEN << <<"load", fileName>> >> ELSE << >>
          /\ lastOp' = [op |-> "loadSettingsFromFile", fileName |-> fileName,
                        fileData |-> fileData]
    /\ UNCHANGED << localBackend, windowOpen >>

\* saveSettingsToFile without configChangedPrevious
saveWindow_noRestore(w, fileName, notified) ==
    IF ~isEmpty(fileName)
    THEN IF notified THEN configurationChanged(w) ELSE w
    ELSE w

\* the window after saveSettingsToFile got fileName from the dialog;
\* notified: the flush raised configurationChanged
saveWindow(w, fileName, notified) ==
    IF ~isEmpty(fileName)
    THEN LET configChangedPrevious == w.m_configChanged
             flushed == IF notified THEN configurationChanged(w) ELSE w
         IN  [flushed EXCEPT !.m_configChanged = configChangedPrevious,
                             !.buttonBoxEnabled = configChangedPrevious]
    ELSE w

\* MainWindow::saveSettingsToFile()
saveSettingsToFile ==
    /\ windowOpen
    /\ \E fileName \in FileNames, written \in BOOLEAN, notified \in BOOLEAN :
          /\ fileName = emptyString => (written /\ ~notified)
          /\ setWindow(saveWindow(window, fileName, notified))
          /\ io' = IF ~isEmpty(fileName)
                   THEN << <<"flush", settingsFileName(fileName), config, written>> >>
                   ELSE << >>
          /\ lastOp' = [op |-> "saveSettingsToFile", fileName |-> fileName,
                        written |-> written, notified |-> notified]
    /\ UNCHANGED << localBackend, windowOpen >>

(* ------------------------------------------------------------------ *)
(* Bug report archive                                                  *)
(* ------------------------------------------------------------------ *)

ItalcA_log == <<"I", "t", "a", "l", "c", "A", ".", "l", "o", "g">>

ItalcA_1_log == <<"I", "t", "a", "l", "c", "A", ".", "1", ".", "l", "o", "g">>

notes_log == <<"n", "o", "t", "e", "s", ".", "l", "o", "g">>

\* the file names a directory can hold, in the order QDir lists them
SortedNames == << ItalcA_1_log, ItalcA_log, notes_log >>

LogNames == {SortedNames[i] : i \in DOMAIN SortedNames}

\* the configured log directory is the temp directory or another one
Dirs == {"logdir", "tmp"}

\* QDir name filter "Italc*.log" (matched without regard to case)
matches(name) ==
    /\ Len(name) >= 9
    /\ startsWith(name, <<"I", "t", "a", "l", "c">>, FALSE)
    /\ endsWith(name, <<".", "l", "o", "g">>, FALSE)

\* QFileInfo::baseName(): the name up to its first "."
baseName(name) ==
    LET dots == {i \in 1..Len(name) : name[i] = "."}
    IN  IF dots = {} THEN name
        ELSE SubSeq(name, 1, (CHOOSE i \in dots : \A j \in dots : i <= j) - 1)

\* QFile::readAll(): the bytes of file name in directory dir
readAll(dir, name) == <<"bytes", dir, name>>

qCompress(data) == <<"zlib", data>>

toBase64(data) == <<"base64", data>>

\* Object::setValue( key, value, parentKey ) within one group
setValue(group, key, value) ==
    [k \in (DOMAIN group) \cup {key} |-> IF k = key THEN value ELSE group[k]]

\* d.entryList( "Italc*.log" ) of directory dir as <<dir, name>> pairs
entryList(fs, dir) ==
    LET listed == SelectSeq(SortedNames, LAMBDA n : n \in fs[dir] /\ matches(n))
    IN  [i \in 1..Len(listed) |-> <<dir, listed[i]>>]

\* the loop body of lines 291-294 over the listed files, in order
RECURSIVE addLogFiles(_, _)
addLogFiles(group, entries) ==
    IF entries = << >> THEN group
    ELSE LET dir == Head(entries)[1]
             f == Head(entries)[2]
             data == toBase64(qCompress(readAll(dir, f)))
         IN  addLogFiles(setValue(group, baseName(f), data), Tail(entries))

\* the document generateBugReportArchive assembles
bugReport(c, logFileDirectory, fs) ==
    LET paths == << logFileDirectory, "tmp" >>
    IN  [ General |-> [ OS |-> "os", MachineInfo |-> "machineInfo",
                        BuildType |-> "buildType", Version |-> "ITALC_VERSION" ],
          Configuration |-> c,
          LogFiles |-> addLogFiles(<< >>,
                           entryList(fs, paths[1]) \o entryList(fs, paths[2])) ]

\* the directory contents the archive can find when the files that may
\* exist are those of names
FileSystems(names, logFileDirectory) ==
    {fs \in [Dirs -> SUBSET names] :
        logFileDirectory = "tmp" => fs["logdir"] = {}}

\* MainWindow::generateBugReportArchive()
generateBugReportArchive(names) ==
    /\ windowOpen
    /\ \E outfile \in FileNames :
          IF isEmpty(outfile)
          THEN /\ io' = << >>
               /\ lastOp' = [op |-> "generateBugReportArchive", fileName |-> outfile]
          ELSE \E logFileDirectory \in Dirs :
               \E fs \in FileSystems(names, logFileDirectory) :
               /\ io' = << <<"flushStore", bugReportFileName(outfile),
                             bugReport(config, logFileDirectory, fs)>>,
                           <<"information", bugReportFileName(outfile)>> >>
               /\ lastOp' = [op |-> "generateBugReportArchive", fileName |-> outfile,
                             logFileDirectory |-> logFileDirectory, fs |-> fs]
    /\ UNCHANGED << config, widgets, localBackend, m_configChanged,
                    buttonBoxEnabled, windowOpen >>

(* ------------------------------------------------------------------ *)
(* Close request                                                       *)
(* ------------------------------------------------------------------ *)

\* closeEvent that accepts without looking at the answer
closeAccepted_noVeto(changed, answer) == TRUE

\* MainWindow::closeEvent: whether the event is accepted
closeAccepted(changed, answer) == ~(changed /\ answer # "Yes")

\* MainWindow::closeEvent( closeEvent )
closeEvent ==
    /\ windowOpen
    /\ \E answer \in {"Yes", "No"} :
          /\ ~m_configChanged => answer = "No"
          /\ windowOpen' = ~closeAccepted(m_configChanged, answer)
          /\ io' = IF m_configChanged THEN << <<"question", answer>> >> ELSE << >>
          /\ lastOp' = [op |-> "closeEvent",
                        answer |-> IF m_configChanged THEN answer ELSE "unasked",
                        accepted |-> closeAccepted(m_configChanged, answer)]
    /\ UNCHANGED << config, widgets, localBackend, m_configChanged, buttonBoxEnabled >>

Next ==
    \/ widgetEdited
    \/ callReset
    \/ callApply
    \/ resetOrApply
    \/ loadSettingsFromFile
    \/ saveSettingsToFile
    \/ generateBugReportArchive({ItalcA_log})
    \/ closeEvent

Spec == Init /\ [][Next]_vars

\* the archive alone, over every directory content
NextArchive == generateBugReportArchive(LogNames)

SpecArchive == Init /\ [][NextArchive]_vars

(* ------------------------------------------------------------------ *)
(* Properties                                                          *)
(* ------------------------------------------------------------------ *)

\* the value layers give a key: that of the last layer defining it
Effective(layers) ==
    [k \in Keys |->
        LET defining == {i \in DOMAIN layers : layers[i][k] # NoValue}
        IN  IF defining = {} THEN NoValue
            ELSE layers[CHOOSE i \in defining : \A j \in defining : j <= i][k]]

\* the last five characters of a name, letters folded
foldedExtension(name) ==
    IF Len(name) < 5 THEN << >>
    ELSE [i \in 1..5 |-> toLower(name[Len(name) - 5 + i])]

\* the last five characters of a name
extension(name) ==
    IF Len(name) < 5 THEN << >> ELSE SubSeq(name, Len(name) - 4, Len(name))

\* C1: whenever apply() runs, a successful commit leaves the dirty flag
\* false and the button box disabled; a failed commit leaves the flag, the
\* button box and the snapshot as they were and no page is told to apply.
C1_ApplyContract ==
    [][ lastOp'.op = "apply" =>
          IF lastOp'.ok
          THEN /\ m_configChanged' = FALSE
               /\ buttonBoxEnabled' = FALSE
          ELSE /\ m_configChanged' = m_configChanged
               /\ buttonBoxEnabled' = buttonBoxEnabled
               /\ config' = config
               /\ \A i \in DOMAIN io' : io'[i][1] # "page->applyConfiguration"
      ]_vars

\* C1 witness: a failed commit in a window with pending changes
C1_Witness ==
    /\ lastOp.op = "apply"
    /\ lastOp.ok = FALSE
    /\ m_configChanged
    /\ buttonBoxEnabled

\* C2: in every quiescent state the dirty flag is true when the snapshot
\* differs from the local-backend configuration, also after Reset with an
\* incomplete local-backend configuration.
C2_DirtyWhenDifferent ==
    config # localBackend => m_configChanged

\* C3: a close request is accepted only if the flag is false or the answer
\* is Yes; a declined prompt vetoes the close and leaves the snapshot and
\* the flag alone; with the flag false the close is accepted unprompted.
C3_CloseGate ==
    [][ lastOp'.op = "closeEvent" =>
          /\ ~windowOpen' => (~m_configChanged \/ lastOp'.answer = "Yes")
          /\ (m_configChanged /\ lastOp'.answer # "Yes") =>
                /\ windowOpen' /\ ~lastOp'.accepted
                /\ config' = config
                /\ m_configChanged' = m_configChanged
          /\ (windowOpen /\ ~m_configChanged) =>
                /\ ~windowOpen' /\ lastOp'.accepted
                /\ io' = << >>
      ]_vars

\* C3 witness: the operator declined the prompt of a dirty window
C3_Witness ==
    /\ lastOp.op = "closeEvent"
    /\ lastOp.answer = "No"
    /\ m_configChanged
    /\ windowOpen

\* C4: saveSettingsToFile with a non-empty name leaves the dirty flag and
\* the snapshot as they were, whether or not the write succeeded or raised
\* configurationChanged, and the button box is enabled exactly when the
\* flag is true.
C4_SaveKeepsFlag ==
    [][ (lastOp'.op = "saveSettingsToFile" /\ lastOp'.fileName # emptyString) =>
          /\ m_configChanged' = m_configChanged
          /\ config' = config
          /\ buttonBoxEnabled' = m_configChanged'
      ]_vars

\* C4 witness: a failed write that raised the notification in a clean window
C4_Witness ==
    /\ lastOp.op = "saveSettingsToFile"
    /\ lastOp.fileName # emptyString
    /\ lastOp.notified
    /\ ~lastOp.written
    /\ ~m_configChanged

C6_CancelAbandons ==
    [][ ( /\ lastOp'.op \in {"loadSettingsFromFile", "saveSettingsToFile",
                              "generateBugReportArchive"}
          /\ lastOp'.fileName = emptyString ) =>
          /\ UNCHANGED << config, widgets, localBackend, m_configChanged,
                          buttonBoxEnabled, windowOpen >>
          /\ io' = << >>
      ]_vars

\* C6 witness: Load Settings cancelled in a clean window
C6_Witness ==
    /\ lastOp.op = "loadSettingsFromFile"
    /\ lastOp.fileName = emptyString
    /\ ~m_configChanged
    /\ io = << >>

\* C7: the LogFiles group of a bug report holds, for every file matching
\* Italc*.log in a candidate directory, an entry under the file's base name
\* with the base64 of the file's compressed contents, and nothing else;
\* with no match it is empty, and the document is flushed and confirmed.
C7_LogFilesExact ==
    (lastOp.op = "generateBugReportArchive" /\ lastOp.fileName # emptyString) =>
        LET matched == {e \in {lastOp.logFileDirectory, "tmp"} \X LogNames :
                           e[2] \in lastOp.fs[e[1]] /\ matches(e[2])}
            group == io[1][3].LogFiles
        IN  /\ io[1][1] = "flushStore"
            /\ io[2][1] = "information"
            /\ \A e \in matched :
                  /\ baseName(e[2]) \in DOMAIN group
                  /\ group[baseName(e[2])] = toBase64(qCompress(readAll(e[1], e[2])))
            /\ \A k \in DOMAIN group : \E e \in matched : baseName(e[2]) = k
            /\ matched = {} => DOMAIN group = {}

\* C8: the bug report name gets ".json" appended unless it ends in exactly
\* ".json", the settings name unless it ends in ".json" in any letter case;
\* both results end in ".json" under their comparison and normalising them
\* again changes nothing.
C8_FileNames ==
    /\ (lastOp.op = "generateBugReportArchive" /\ lastOp.fileName # emptyString) =>
          LET outfile == io[1][2]
          IN  /\ outfile = IF extension(lastOp.fileName) = dotJson
                           THEN lastOp.fileName
                           ELSE lastOp.fileName \o dotJson
              /\ extension(outfile) = dotJson
              /\ bugReportFileName(outfile) = outfile
              /\ lastOp.fileName = report => outfile = report \o dotJson
              /\ lastOp.fileName = report \o dotJSON =>
                    outfile = report \o dotJSON \o dotJson
    /\ (lastOp.op = "saveSettingsToFile" /\ lastOp.fileName # emptyString) =>
          LET fileName == io[1][2]
          IN  /\ fileName = IF foldedExtension(lastOp.fileName) = dotJson
                            THEN lastOp.fileName
                            ELSE lastOp.fileName \o dotJson
              /\ foldedExtension(fileName) = dotJson
              /\ settingsFileName(fileName) = fileName
              /\ lastOp.fileName = report \o dotJSON => fileName = report \o dotJSON

\* C8 witness: settings saved under "report.JSON"
C8_Witness ==
    /\ lastOp.op = "saveSettingsToFile"
    /\ lastOp.fileName = report \o dotJSON
    /\ io[1][1] = "flush"
    /\ io[1][2] = report \o dotJSON

\* C9: reset(true) right after reset(false) leaves widgets, snapshot, flag
\* (false) and button box (disabled) as reset(false) left them, and
\* reset(true) never modifies the snapshot.
C9_ResetOnlyUI ==
    /\ [][ ( /\ lastOp.op = "reset" /\ lastOp.onlyUI = FALSE
             /\ lastOp'.op = "reset" /\ lastOp'.onlyUI = TRUE ) =>
             /\ widgets' = widgets
             /\ config' = config
             /\ m_configChanged' = FALSE /\ m_configChanged = FALSE
             /\ buttonBoxEnabled' = FALSE /\ buttonBoxEnabled = FALSE
         ]_vars
    /\ [][ (lastOp'.op = "reset" /\ lastOp'.onlyUI = TRUE) => config' = config ]_vars

\* C9 witness: reset(true) has run on a snapshot that is the merge of the
\* defaults and a local backend overriding them
C9_Witness ==
    /\ lastOp.op = "reset"
    /\ lastOp.onlyUI = TRUE
    /\ localBackend["a"] = 2
    /\ config = Effective(<< defaultConfiguration, localBackend >>)
    /\ widgets = config
    /\ ~m_configChanged
    /\ ~buttonBoxEnabled

\* C10: in every state after the constructor the button box is enabled
\* exactly when the dirty flag is true.
C10_ButtonBoxFollowsFlag ==
    buttonBoxEnabled = m_configChanged

\* C10 witness: a loaded file has left the flag and the button box set
C10_Witness ==
    /\ lastOp.op = "loadSettingsFromFile"
    /\ lastOp.fileName # emptyString
    /\ m_configChanged
    /\ buttonBoxEnabled

====
